---- MODULE Spec2Model ----
(***************************************************************************)
(* Interactive Book Analyzer (app.py): the Streamlit script as a state     *)
(* machine.  One step of the model is one complete run of the script: the  *)
(* module-level credential check followed by main().  st.session_state and *)
(* the value held by the file_uploader widget persist between runs; what a *)
(* run rendered (ui) and which generate_content calls it made (calls) are  *)
(* recorded for the run that has just finished.                            *)
(*                                                                         *)
(* Strings.  A Python str is represented by the character stream it is     *)
(* read from and the number of characters taken from the start of that     *)
(* stream: [kind |-> "str", src |-> s, len |-> n] is the first n           *)
(* characters of stream s.  Every string the program slices is of that     *)
(* form, and content[:k] is the first min(len, k) characters of the same   *)
(* stream.  An f-string is kept as its literal prefix and its argument.    *)
(***************************************************************************)
EXTENDS Integers, Sequences, FiniteSets, TLC

VARIABLES
    has_key,        \* 'GOOGLE_API_KEY' in st.secrets (fixed for the process)
    session_state,  \* st.session_state: a function from the keys present to values
    uploaded_file,  \* the value the file_uploader widget holds
    now,            \* the wall clock read by datetime.now()
    ui,             \* the elements the last run rendered, in order
    calls,          \* the generate_content calls of the last run, in order
    summaries       \* history: the analyze_book calls made for the file the
                    \* uploader holds, since the user picked it

vars == <<has_key, session_state, uploaded_file, now, ui, calls, summaries>>

----------------------------------------------------------------------------
(* Bounds *)

MaxChat == 2        \* questions are accepted while chat_history is shorter
MaxTime == 6        \* the clock is read once per run, up to this time

----------------------------------------------------------------------------
(* Values *)

None == [kind |-> "None"]

Str(s, n) == [kind |-> "str", src |-> s, len |-> n]

\* f"{prefix}{arg}"
FString(prefix, arg) == [kind |-> "fstr", prefix |-> prefix, arg |-> arg]

\* Python truthiness of None, a str, or any other object
Truthy(v) ==
    CASE v.kind = "None" -> FALSE
      [] v.kind = "str"  -> v.len > 0
      [] OTHER           -> TRUE

\* content[:n] ; slicing None raises TypeError
CanSlice(v) == v.kind = "str"

Slice(v, n) == [v EXCEPT !.len = IF v.len < n THEN v.len ELSE n]

AnalyzeCap == 5000
AnswerCap == 5000

----------------------------------------------------------------------------
(* Inputs: the files a user may pick, the questions, the model's outcomes *)

PDF == "application/pdf"
TXT == "text/plain"

\* An uploaded file: valid is "the PDF parses" / "the bytes are UTF-8";
\* chunks are the lengths of the page texts (PDF) or of the decoded text (TXT).
UploadedFile(id, type, valid, src, chunks) ==
    [kind |-> "file", id |-> id, type |-> type, valid |-> valid,
     src |-> src, chunks |-> chunks]

Files ==
    { UploadedFile("fox.txt",   TXT, TRUE,  "fox",   <<20>>),
      UploadedFile("exact.txt", TXT, TRUE,  "novel", <<AnalyzeCap>>),
      UploadedFile("novel.pdf", PDF, TRUE,  "novel", <<2500, 2499>>),
      UploadedFile("empty.txt", TXT, TRUE,  "empty", <<0>>),
      UploadedFile("bad.pdf",   PDF, FALSE, "bad",   <<10>>),
      UploadedFile("bad.txt",   TXT, FALSE, "bad",   <<10>>) }

\* what st.chat_input can return: the text typed, which may be only spaces
\* (an empty box is not submitted: chat_input returns None)
Spaces == "   "

Questions == { Str("who?", 4), Str("why?", 4), Str(Spaces, 3) }

ErrMsgs == { Str("quota exceeded", 14) }

\* what one generate_content call does: "ok", or the message of the exception
ModelOutcomes == { [ok |-> TRUE, error |-> None] } \cup
                 { [ok |-> FALSE, error |-> e] : e \in ErrMsgs }

\* response.text of the model for a prompt
Response(prompt) == [kind |-> "response", prompt |-> prompt]

----------------------------------------------------------------------------
(* Rendered elements *)

Error(text) == [w |-> "error", text |-> text]
Success(text) == [w |-> "success", text |-> text]
Info(text) == [w |-> "info", text |-> text]
Widget(name) == [w |-> name]

Shown(u, element) == \E i \in 1..Len(u) : u[i] = element

----------------------------------------------------------------------------
(* class BookAnalyzer *)

\* __init__ without the st.stop() of line 22
BookAnalyzer_no_stop(model_ok, e) ==
    IF model_ok
    THEN [stopped |-> FALSE, ui |-> <<>>]
    ELSE [stopped |-> FALSE,
          ui |-> <<Error(FString("Error initializing Gemini model: ", e))>>]

\* BookAnalyzer.__init__: st.stop() when GenerativeModel(...) raises
BookAnalyzer(model_ok, e) ==
    IF model_ok
    THEN [stopped |-> FALSE, ui |-> <<>>]
    ELSE [stopped |-> TRUE,
          ui |-> <<Error(FString("Error initializing Gemini model: ", e))>>]

\* text = ""; for page in pdf.pages: text += page.extract_text() + "\n"
RECURSIVE PagesLen(_)
PagesLen(chunks) ==
    IF chunks = <<>> THEN 0
    ELSE Head(chunks) + 1 + PagesLen(Tail(chunks))

ParseError == Str("EOF marker not found", 20)

\* read_pdf returning the text read so far when a page fails
read_pdf_partial(file) ==
    IF file.valid
    THEN [content |-> Str(file.src, PagesLen(file.chunks)), ui |-> <<>>]
    ELSE [content |-> Str(file.src, Head(file.chunks) + 1),
          ui |-> <<Error(FString("Error reading PDF: ", ParseError))>>]

read_pdf(file) ==
    IF file.valid
    THEN [content |-> Str(file.src, PagesLen(file.chunks)), ui |-> <<>>]
    ELSE [content |-> None,
          ui |-> <<Error(FString("Error reading PDF: ", ParseError))>>]

\* uploaded_file.read().decode("utf-8") inside try/except
read_text(file) ==
    IF file.valid
    THEN [content |-> Str(file.src, file.chunks[1]), ui |-> <<>>]
    ELSE [content |-> None,
          ui |-> <<Error(FString("Error reading the file. Please try again.", None))>>]

Prompt(template, question, content) ==
    [template |-> template, question |-> question, content |-> content]

Call(prompt, outcome) == [prompt |-> prompt, outcome |-> outcome]

TypeError == Str("'NoneType' object is not subscriptable", 38)

analyze_book(content, outcome) ==
    IF ~CanSlice(content)
    THEN [result |-> [success |-> FALSE, analysis |-> None, error |-> TypeError],
          calls |-> <<>>]
    ELSE LET prompt == Prompt("analyze", None, Slice(content, AnalyzeCap))
         IN  [result |-> IF outcome.ok
                         THEN [success |-> TRUE, analysis |-> Response(prompt),
                               error |-> None]
                         ELSE [success |-> FALSE, analysis |-> None,
                               error |-> outcome.error],
              calls |-> <<Call(prompt, outcome)>>]

\* answer_question returning str(e) without the error marker
answer_question_raw(question, content, outcome) ==
    IF ~CanSlice(content)
    THEN [answer |-> TypeError, calls |-> <<>>]
    ELSE LET prompt == Prompt("answer", question, Slice(content, AnswerCap))
         IN  [answer |-> IF outcome.ok THEN Response(prompt) ELSE outcome.error,
              calls |-> <<Call(prompt, outcome)>>]

\* answer_question sending content instead of content[:5000]
answer_question_whole(question, content, outcome) ==
    IF ~CanSlice(content)
    THEN [answer |-> FString("Error generating answer: ", TypeError),
          calls |-> <<>>]
    ELSE LET prompt == Prompt("answer", question, content)
         IN  [answer |-> IF outcome.ok
                         THEN Response(prompt)
                         ELSE FString("Error generating answer: ", outcome.error),
              calls |-> <<Call(prompt, outcome)>>]

answer_question(question, content, outcome) ==
    IF ~CanSlice(content)
    THEN [answer |-> FString("Error generating answer: ", TypeError),
          calls |-> <<>>]
    ELSE LET prompt == Prompt("answer", question, Slice(content, AnswerCap))
         IN  [answer |-> IF outcome.ok
                         THEN Response(prompt)
                         ELSE FString("Error generating answer: ", outcome.error),
              calls |-> <<Call(prompt, outcome)>>]

----------------------------------------------------------------------------
(* Session state *)

Keys == {"book_content", "book_analysis", "chat_history", "current_book"}

NoSession == [k \in {} |-> None]

initialize_session_state(ss) ==
    [k \in Keys |->
        IF k \in DOMAIN ss THEN ss[k]
        ELSE IF k = "chat_history" THEN <<>> ELSE None]

ChatExchange(timestamp, question, answer) ==
    [timestamp |-> timestamp, question |-> question, answer |-> answer]

\* add_to_chat_history with insert(0, ...) in place of append
add_to_chat_history_front(ss, question, answer, t) ==
    [ss EXCEPT !.chat_history = <<ChatExchange(t, question, answer)>> \o @]

add_to_chat_history(ss, question, answer, t) ==
    [ss EXCEPT !.chat_history = Append(@, ChatExchange(t, question, answer))]

display_chat_message(role, content) ==
    [w |-> "chat_message", role |-> role, content |-> content]

----------------------------------------------------------------------------
(* main() *)

\* lines 135-142: the text of the uploaded file, None when reading fails
extract(file) ==
    IF file.type = PDF THEN read_pdf(file) ELSE read_text(file)

\* the body of `if content:` storing book_content only with the analysis
install_after_summary(ss, file, content, outcome) ==
    LET a == analyze_book(content, outcome)
    IN  IF a.result.success
        THEN [ss |-> [ss EXCEPT !.book_content = content,
                                !.book_analysis = a.result.analysis,
                                !.current_book = file,
                                !.chat_history = <<>>],
              ui |-> <<Success(FString("Book analyzed successfully!", None))>>,
              calls |-> a.calls]
        ELSE [ss |-> ss,
              ui |-> <<Error(FString("Error analyzing book: ", a.result.error))>>,
              calls |-> a.calls]

\* lines 145-154: the body of `if content:`
install(ss, file, content, outcome) ==
    LET ss1 == [ss EXCEPT !.book_content = content]
        a == analyze_book(content, outcome)
    IN  IF a.result.success
        THEN [ss |-> [ss1 EXCEPT !.book_analysis = a.result.analysis,
                                 !.current_book = file,
                                 !.chat_history = <<>>],
              ui |-> <<Success(FString("Book analyzed successfully!", None))>>,
              calls |-> a.calls]
        ELSE [ss |-> ss1,
              ui |-> <<Error(FString("Error analyzing book: ", a.result.error))>>,
              calls |-> a.calls]

\* the upload block storing book_content before the test of `if content:`
upload_block_assign_first(ss, file, outcome) ==
    IF file # None /\ file # ss.current_book
    THEN LET read == extract(file)
         IN  IF Truthy(read.content)
             THEN LET done == install(ss, file, read.content, outcome)
                  IN  [done EXCEPT !.ui = read.ui \o @]
             ELSE [ss |-> [ss EXCEPT !.book_content = read.content],
                   ui |-> read.ui, calls |-> <<>>]
    ELSE [ss |-> ss, ui |-> <<>>, calls |-> <<>>]

\* the upload block testing `if content is not None:`
upload_block_not_none(ss, file, outcome) ==
    IF file # None /\ file # ss.current_book
    THEN LET read == extract(file)
         IN  IF read.content # None
             THEN LET done == install(ss, file, read.content, outcome)
                  IN  [done EXCEPT !.ui = read.ui \o @]
             ELSE [ss |-> ss, ui |-> read.ui, calls |-> <<>>]
    ELSE [ss |-> ss, ui |-> <<>>, calls |-> <<>>]

\* lines 133-154: the sidebar's upload block
upload_block(ss, file, outcome) ==
    IF file # None /\ file # ss.current_book
    THEN LET read == extract(file)
         IN  IF Truthy(read.content)
             THEN LET done == install(ss, file, read.content, outcome)
                  IN  [done EXCEPT !.ui = read.ui \o @]
             ELSE [ss |-> ss, ui |-> read.ui, calls |-> <<>>]
    ELSE [ss |-> ss, ui |-> <<>>, calls |-> <<>>]

\* lines 156-158
analysis_panel(ss) ==
    IF Truthy(ss.book_analysis)
    THEN <<[w |-> "expander", content |-> ss.book_analysis]>>
    ELSE <<>>

\* lines 163-168
RECURSIVE chat_container(_)
chat_container(history) ==
    IF history = <<>> THEN <<>>
    ELSE <<display_chat_message("user", Head(history).question),
           display_chat_message("assistant", Head(history).answer)>>
         \o chat_container(Tail(history))

\* the chat input created on every run
chat_enabled_always(ss) == TRUE

\* line 172: the chat input is created only when a book is loaded
chat_enabled(ss) == Truthy(ss.book_content)

\* lines 172-195; question is the value st.chat_input returns in this run
question_block(ss, question, outcome, t) ==
    IF chat_enabled(ss)
    THEN IF Truthy(question)
         THEN LET a == answer_question(question, ss.book_content, outcome)
              IN  [ss |-> add_to_chat_history(ss, question, a.answer, t),
                   ui |-> <<Widget("chat_input"),
                            display_chat_message("user", question),
                            display_chat_message("assistant", a.answer)>>,
                   calls |-> a.calls]
         ELSE [ss |-> ss, ui |-> <<Widget("chat_input")>>, calls |-> <<>>]
    ELSE [ss |-> ss,
          ui |-> <<Info(FString("Please upload a book to start the conversation!", None))>>,
          calls |-> <<>>]

InitError == Str("model not found", 15)

\* one run of main() with the widget values and the outcomes of its calls
main(file, question, model_ok, analysis, answer, t) ==
    LET ss0 == initialize_session_state(session_state)
        analyzer == BookAnalyzer(model_ok, InitError)
    IN  IF analyzer.stopped
        THEN /\ session_state' = ss0
             /\ ui' = analyzer.ui
             /\ calls' = <<>>
        ELSE LET up == upload_block(ss0, file, analysis)
                 qa == question_block(up.ss, question, answer, t)
             IN  /\ session_state' = qa.ss
                 /\ ui' = analyzer.ui \o <<Widget("file_uploader")>> \o up.ui
                          \o analysis_panel(up.ss)
                          \o chat_container(up.ss.chat_history) \o qa.ui
                 /\ calls' = up.calls \o qa.calls

\* lines 8-13 and 198-199: the whole script
script(file, question, model_ok, analysis, answer, t) ==
    IF ~has_key
    THEN /\ ui' = <<Error(FString("GOOGLE_API_KEY not found in secrets. Please add it to your secrets.toml file.", None))>>
         /\ calls' = <<>>
         /\ UNCHANGED session_state
    ELSE main(file, question, model_ok, analysis, answer, t)

----------------------------------------------------------------------------
(* The runs *)

Init ==
    /\ has_key \in BOOLEAN
    /\ session_state = NoSession
    /\ uploaded_file = None
    /\ now = 0
    /\ ui = <<>>
    /\ calls = <<>>
    /\ summaries = 0

\* the clock at the time of a run: later than at the run before
Tick(t) == t = now + 1 /\ t <= MaxTime

\* the analyze_book calls of a run
Analyzed(c) == Cardinality({ i \in 1..Len(c) : c[i].prompt.template = "analyze" })

\* The browser opens the page, or the user reruns the script ("Rerun"):
\* no widget value changes.
Rerun ==
    \E model_ok \in BOOLEAN, analysis \in ModelOutcomes, t \in 0..MaxTime :
        /\ Tick(t)
        /\ now' = t
        /\ script(uploaded_file, None, model_ok, analysis, [ok |-> TRUE, error |-> None], t)
        /\ summaries' = summaries + Analyzed(calls')
        /\ UNCHANGED <<has_key, uploaded_file>>

\* The user picks a file in the uploader, or removes the one it holds.
Upload ==
    \E file \in Files \cup {None}, model_ok \in BOOLEAN,
       analysis \in ModelOutcomes, t \in 0..MaxTime :
        /\ Shown(ui, Widget("file_uploader"))
        /\ file # uploaded_file
        /\ Tick(t)
        /\ now' = t
        /\ uploaded_file' = file
        /\ script(file, None, model_ok, analysis, [ok |-> TRUE, error |-> None], t)
        /\ summaries' = Analyzed(calls')
        /\ UNCHANGED has_key

\* The user submits text in the chat input.
Ask ==
    \E question \in Questions, model_ok \in BOOLEAN,
       analysis \in ModelOutcomes, answer \in ModelOutcomes, t \in 0..MaxTime :
        /\ Shown(ui, Widget("chat_input"))
        /\ Len(session_state.chat_history) < MaxChat
        /\ Tick(t)
        /\ now' = t
        /\ script(uploaded_file, question, model_ok, analysis, answer, t)
        /\ summaries' = summaries + Analyzed(calls')
        /\ UNCHANGED <<has_key, uploaded_file>>

Next == Rerun \/ Upload \/ Ask

Spec == Init /\ [][Next]_vars

----------------------------------------------------------------------------
(* Vocabulary of the properties *)

\* a key of the session state, with the value initialize_session_state gives
\* it while the first run has not yet happened
Field(ss, k) == initialize_session_state(ss)[k]

book_content == Field(session_state, "book_content")
book_analysis == Field(session_state, "book_analysis")
chat_history == Field(session_state, "chat_history")
current_book == Field(session_state, "current_book")

\* the orchestrator's state DocumentLoaded
DocumentLoaded(ss) == Truthy(Field(ss, "book_content"))

CallsOf(c, template) == { i \in 1..Len(c) : c[i].prompt.template = template }

Summarized(c) == CallsOf(c, "analyze") # {}
SummarizeFailed(c) == \E i \in CallsOf(c, "analyze") : ~c[i].outcome.ok
Asked(c) == CallsOf(c, "answer") # {}
AnswerFailed(c) == \E i \in CallsOf(c, "answer") : ~c[i].outcome.ok

\* the run that has just finished got as far as the sidebar
Rendered(u) == Shown(u, Widget("file_uploader"))

Front(seq) == SubSeq(seq, 1, Len(seq) - 1)
Last(seq) == seq[Len(seq)]

\* the first n characters of a text, the whole text when it is shorter
PrefixOf(text, n) == IF text.len <= n THEN text ELSE Str(text.src, n)

----------------------------------------------------------------------------
(* Uploads *)

\* C1: a run that processes a new valid document (extraction gave text, so
\* summarize was called) and takes no question leaves chat_history empty,
\* whether summarize succeeded or failed.
C1_UploadClearsTranscript ==
    [][(Summarized(calls') /\ ~Asked(calls')) => chat_history' = <<>>]_vars

\* C2: when summarize fails during an upload, the new text and the new
\* identity token are installed and book_analysis holds the failure message
\* of that call.
C2_FailedSummaryIsRecorded ==
    [][SummarizeFailed(calls') =>
        /\ book_content' = extract(uploaded_file').content
        /\ current_book' = uploaded_file'
        /\ \E i \in CallsOf(calls', "analyze") :
              book_analysis' \in
                  { calls'[i].outcome.error,
                    FString("Error analyzing book: ", calls'[i].outcome.error) }]_vars

\* the run processes uploaded_file' as a new upload and its extraction fails
ExtractionFails ==
    /\ Rendered(ui')
    /\ uploaded_file' # None
    /\ uploaded_file' # current_book
    /\ ~uploaded_file'.valid

ReadError(file) ==
    IF file.type = PDF
    THEN Error(FString("Error reading PDF: ", ParseError))
    ELSE Error(FString("Error reading the file. Please try again.", None))

\* C3: when extraction fails, book_content, book_analysis and current_book
\* keep their values, chat_history keeps its value (a question submitted in
\* the same run is appended to it), summarize is not called and the read
\* error is shown.
C3_ExtractionFailureKeepsState ==
    [][ExtractionFails =>
        /\ book_content' = book_content
        /\ book_analysis' = book_analysis
        /\ current_book' = current_book
        /\ IF Asked(calls')
           THEN Front(chat_history') = chat_history
           ELSE chat_history' = chat_history
        /\ ~Summarized(calls')
        /\ Shown(ui', ReadError(uploaded_file'))]_vars

\* C3 witness: a loaded session with a transcript has just refused a PDF
C3_Witness ==
    /\ Shown(ui, ReadError(UploadedFile("bad.pdf", PDF, FALSE, "bad", <<10>>)))
    /\ DocumentLoaded(session_state)
    /\ chat_history # <<>>
    /\ Truthy(book_analysis)

\* C4: a second run over the same file object (no question submitted) is a
\* no-op, whatever the first run did with it.
C4_SameFileIsNoOp ==
    [][(/\ Rendered(ui)
        /\ uploaded_file # None
        /\ uploaded_file' = uploaded_file
        /\ ~Asked(calls'))
       => session_state' = session_state]_vars

----------------------------------------------------------------------------
(* Questions *)

\* C5: in NoDocument the chat input is not shown, no answer is requested and
\* the transcript stays as it is; a non-empty transcript implies a loaded
\* document.
C5_NoAskWithoutDocument ==
    /\ [](/\ chat_history # <<>> => DocumentLoaded(session_state)
          /\ Shown(ui, Widget("chat_input")) => DocumentLoaded(session_state)
          /\ Asked(calls) => DocumentLoaded(session_state))
    /\ [][~DocumentLoaded(session_state) =>
             /\ ~Asked(calls')
             /\ chat_history' = chat_history]_vars

\* C5 witness: a run over an uploaded file has left the session in NoDocument
C5_Witness ==
    /\ Rendered(ui)
    /\ uploaded_file # None
    /\ ~DocumentLoaded(session_state)
    /\ ~Shown(ui, Widget("chat_input"))

\* C6: an ask in DocumentLoaded appends one exchange, carrying the submitted
\* question, to the end of chat_history and changes nothing else.
C6_AskAppendsOneExchange ==
    [][(DocumentLoaded(session_state) /\ Asked(calls')) =>
        /\ Len(chat_history') = Len(chat_history) + 1
        /\ Front(chat_history') = chat_history
        /\ Last(chat_history').question = Last(calls').prompt.question
        /\ book_content' = book_content
        /\ current_book' = current_book
        /\ book_analysis' = book_analysis]_vars

\* C7: when the model call of answer_question fails, the run still completes
\* and chat_history ends with one new exchange whose answer is
\* "Error generating answer: " followed by the message; the exchanges before
\* it are those the upload block of the run left.
C7_FailedAnswerIsRecorded ==
    [][AnswerFailed(calls') =>
        /\ chat_history' # chat_history
        /\ chat_history' # <<>>
        /\ Last(chat_history').question = Last(calls').prompt.question
        /\ Last(chat_history').answer =
               FString("Error generating answer: ", Last(calls').outcome.error)
        /\ Front(chat_history') \in {chat_history, <<>>}
        /\ (current_book' = current_book => Front(chat_history') = chat_history)
        /\ Last(ui') = display_chat_message("assistant", Last(chat_history').answer)
        /\ Shown(ui', Widget("chat_input"))]_vars

\* C7 witness: the transcript holds an answered exchange followed by a failed one
C7_Witness ==
    /\ AnswerFailed(calls)
    /\ Len(chat_history) = 2
    /\ chat_history[1].answer.kind = "response"
    /\ chat_history[2].answer.kind = "fstr"

CharCap == 5000

\* C8: every prompt sent to the model, for a summary or for an answer,
\* carries the first CharCap characters of the stored text, and the whole
\* text when it is no longer than that.
C8_PromptCarriesPrefix ==
    \A i \in 1..Len(calls) :
        calls[i].prompt.content = PrefixOf(book_content, CharCap)

\* C8 witness: one run summarized and answered over a text longer than the cap
C8_Witness ==
    /\ Summarized(calls)
    /\ Asked(calls)
    /\ book_content.len > CharCap
    /\ \A i \in 1..Len(calls) : calls[i].prompt.content.len = CharCap

\* C9: after an upload whose summarize call failed the document is loaded
\* with the uploaded file's text and the chat input is shown, and a question
\* submitted next is answered from that text.
C9_AskAfterFailedSummary ==
    /\ [](SummarizeFailed(calls) =>
             /\ DocumentLoaded(session_state)
             /\ book_content = extract(uploaded_file).content
             /\ Shown(ui, Widget("chat_input")))
    /\ [][(SummarizeFailed(calls) /\ Asked(calls')) =>
             /\ Last(calls').prompt.content =
                    PrefixOf(extract(uploaded_file).content, CharCap)
             /\ Last(chat_history').question = Last(calls').prompt.question]_vars

\* C9 witness: a question was answered from a document that was never summarized
C9_Witness ==
    /\ current_book = None
    /\ ~Truthy(book_analysis)
    /\ chat_history # <<>>
    /\ Last(chat_history).answer =
           Response(Prompt("answer", Last(chat_history).question,
                           PrefixOf(extract(uploaded_file).content, CharCap)))

----------------------------------------------------------------------------
(* Startup *)

SecretsError ==
    Error(FString("GOOGLE_API_KEY not found in secrets. Please add it to your secrets.toml file.", None))

ModelInitError == Error(FString("Error initializing Gemini model: ", InitError))

Halted(u) == Shown(u, SecretsError) \/ Shown(u, ModelInitError)

\* C10: a run that finds no credential, or fails to create the model, shows
\* its diagnostic and nothing else: no uploader, no chat input, no change to
\* book_content, book_analysis, chat_history or current_book, no model call.
\* Without a credential no run ever creates the session or calls the model.
C10_StartupFailureHalts ==
    /\ [](~has_key => /\ session_state = NoSession
                      /\ calls = <<>>
                      /\ ui \in {<<>>, <<SecretsError>>})
    /\ [][Halted(ui') =>
             /\ Len(ui') = 1
             /\ calls' = <<>>
             /\ book_content' = book_content
             /\ book_analysis' = book_analysis
             /\ chat_history' = chat_history
             /\ current_book' = current_book]_vars

\* C10 witness: model creation failed in a run that had a new, readable file
\* to process
C10_Witness ==
    /\ Shown(ui, ModelInitError)
    /\ uploaded_file # None
    /\ uploaded_file # current_book
    /\ Truthy(extract(uploaded_file).content)

----------------------------------------------------------------------------
(* Document and transcript together *)

\* C11: every answered exchange of chat_history was answered from the text
\* now stored in book_content.
C11_TranscriptIsOfCurrentDocument ==
    \A i \in 1..Len(chat_history) :
        chat_history[i].answer.kind = "response" =>
            chat_history[i].answer.prompt.content = PrefixOf(book_content, CharCap)

\* the four fields after the run are those before it
UploadKept ==
    /\ book_content' = book_content
    /\ book_analysis' = book_analysis
    /\ current_book' = current_book
    /\ chat_history' = chat_history

\* the four fields after the run are those of the file in the uploader
UploadReplaced ==
    /\ uploaded_file' # None
    /\ book_content' = extract(uploaded_file').content
    /\ current_book' = uploaded_file'
    /\ chat_history' = <<>>
    /\ \E i \in CallsOf(calls', "analyze") :
          book_analysis' \in
              { Response(calls'[i].prompt),
                calls'[i].outcome.error,
                FString("Error analyzing book: ", calls'[i].outcome.error) }

\* C12: a run that takes no question either replaces book_content,
\* current_book, book_analysis and chat_history together by those of the
\* uploaded file, or keeps all four.
C12_UploadIsAtomic ==
    [][~Asked(calls') => (UploadKept \/ UploadReplaced)]_vars

----------------------------------------------------------------------------
(* Blank questions *)

\* question.strip() == ""
IsBlank(question) == question.len = 0 \/ question.src = Spaces

\* C13: no blank question reaches answer_question and none is appended to
\* chat_history.
C13_BlankQuestionIsNoAction ==
    /\ \A i \in CallsOf(calls, "answer") : ~IsBlank(calls[i].prompt.question)
    /\ \A i \in 1..Len(chat_history) : ~IsBlank(chat_history[i].question)

----------------------------------------------------------------------------
(* Retries *)

\* C14: analyze_book is called at most once for a file while the uploader
\* holds it, over all the runs that follow its upload.
C14_SummarizedAtMostOnce == summaries <= 1

----------------------------------------------------------------------------
(* Order of the transcript *)

IsChatMessage(element) == element.w = "chat_message"

SummarySucceeded(c) == \E i \in CallsOf(c, "analyze") : c[i].outcome.ok

\* C15: the upload block of a run leaves chat_history as it is or, when it
\* installs a summarized document, resets it to empty; the question block
\* leaves it as it is or appends one exchange at its end.  Nothing else
\* changes it, and the chat messages a run displays are the questions and
\* answers of chat_history in its order, each question followed by its answer.
C15_TranscriptIsAppendOnly ==
    /\ [](Rendered(ui) =>
             SelectSeq(ui, IsChatMessage) = chat_container(chat_history))
    /\ [][\E h \in {chat_history} \cup
                   (IF SummarySucceeded(calls') THEN {<<>>} ELSE {}) :
             \/ chat_history' = h
             \/ /\ Asked(calls')
                /\ chat_history' # <<>>
                /\ Front(chat_history') = h]_vars

\* C15 witness: two exchanges, displayed in the order they were asked
C15_Witness ==
    /\ Len(chat_history) = 2
    /\ chat_history[1].question = Str("who?", 4)
    /\ chat_history[2].question = Str("why?", 4)
    /\ chat_history[1].timestamp < chat_history[2].timestamp
    /\ Len(SelectSeq(ui, IsChatMessage)) = 4
    /\ Last(ui) = display_chat_message("assistant", chat_history[2].answer)

----------------------------------------------------------------------------
(* No way back to NoDocument *)

\* C16: a run that starts in DocumentLoaded ends in DocumentLoaded, and shows
\* the chat input whenever it gets past startup.
C16_DocumentStaysLoaded ==
    [][DocumentLoaded(session_state) =>
        /\ DocumentLoaded(session_state')
        /\ Rendered(ui') => Shown(ui', Widget("chat_input"))]_vars

\* C16 witness: a loaded session after an upload that gave no text
C16_Witness ==
    /\ uploaded_file # None
    /\ ~Truthy(extract(uploaded_file).content)
    /\ DocumentLoaded(session_state)
    /\ Shown(ui, Widget("chat_input"))

\* the run processes uploaded_file' as a new upload and reads the empty string
ExtractionIsEmpty ==
    /\ Rendered(ui')
    /\ uploaded_file' # None
    /\ uploaded_file' # current_book
    /\ extract(uploaded_file').content = Str(uploaded_file'.src, 0)

\* C17: an upload whose text is empty changes nothing: no summarize call, no
\* message, book_content, book_analysis and current_book as before,
\* chat_history as before (a question submitted in the same run is appended),
\* and a session in NoDocument stays there without a chat input.
C17_EmptyTextIsNoUpload ==
    [][ExtractionIsEmpty =>
        /\ ~Summarized(calls')
        /\ book_content' = book_content
        /\ book_analysis' = book_analysis
        /\ current_book' = current_book
        /\ IF Asked(calls')
           THEN Front(chat_history') = chat_history
           ELSE chat_history' = chat_history
        /\ \A i \in 1..Len(ui') : ui'[i].w \notin {"error", "success"}
        /\ ~DocumentLoaded(session_state) =>
              /\ ~DocumentLoaded(session_state')
              /\ ~Shown(ui', Widget("chat_input"))]_vars

\* C17 witness: an empty file is in the uploader and the session is in NoDocument
C17_Witness ==
    /\ Rendered(ui)
    /\ uploaded_file # None
    /\ extract(uploaded_file).content = Str(uploaded_file.src, 0)
    /\ calls = <<>>
    /\ ~DocumentLoaded(session_state)
    /\ Len(ui) = 2

====
